---------------------------- MODULE Spec2Model ----------------------------
(***************************************************************************)
(* Model of report-builder's aggregation engine (src/src/main.rs):         *)
(* collect_activity_metrics, locate_required_columns,                      *)
(* extract_metrics_from_record, compute_weekly_summary and the date and    *)
(* weekday helpers they call.                                              *)
(*                                                                         *)
(* Text is a sequence of one-character strings, so that trimming, parsing  *)
(* and comparing are computed character by character as the code does.     *)
(* An f64 is modelled by an exact rational <<n, d>> (d > 0, lowest terms): *)
(* rounding, infinities and NaN are outside the model.                     *)
(***************************************************************************)
EXTENDS Integers, Sequences, FiniteSets, TLC

(***************************************************************************)
(* Text helpers                                                            *)
(***************************************************************************)
Range(s) == { s[i] : i \in 1..Len(s) }

Digits == <<"0", "1", "2", "3", "4", "5", "6", "7", "8", "9">>

IsDigit(c) == c \in Range(Digits)

DigitVal(c) == (CHOOSE i \in 1..10 : Digits[i] = c) - 1

UpperChars ==
  <<"A", "B", "C", "D", "E", "F", "G", "H", "I", "J", "K", "L", "M",
    "N", "O", "P", "Q", "R", "S", "T", "U", "V", "W", "X", "Y", "Z">>

LowerChars ==
  <<"a", "b", "c", "d", "e", "f", "g", "h", "i", "j", "k", "l", "m",
    "n", "o", "p", "q", "r", "s", "t", "u", "v", "w", "x", "y", "z">>

IndexOf(s, c) == CHOOSE i \in 1..Len(s) : s[i] = c

\* The ASCII code of a character of the alphabet the model's texts are written in:
\* space, + , - . / _, digits and letters.
CharCode(c) ==
  IF c = " " THEN 32
  ELSE IF c = "+" THEN 43
  ELSE IF c = "," THEN 44
  ELSE IF c = "-" THEN 45
  ELSE IF c = "." THEN 46
  ELSE IF c = "/" THEN 47
  ELSE IF IsDigit(c) THEN 48 + DigitVal(c)
  ELSE IF c \in Range(UpperChars) THEN 64 + IndexOf(UpperChars, c)
  ELSE IF c = "_" THEN 95
  ELSE 96 + IndexOf(LowerChars, c)

IsSpace(c) == c = " "

\* str::trim: drop leading and trailing whitespace.
RECURSIVE TrimStart(_)
TrimStart(t) ==
  IF t # <<>> /\ IsSpace(Head(t)) THEN TrimStart(Tail(t)) ELSE t

RECURSIVE TrimEnd(_)
TrimEnd(t) ==
  IF t # <<>> /\ IsSpace(t[Len(t)]) THEN TrimEnd(SubSeq(t, 1, Len(t) - 1)) ELSE t

Trim(t) == TrimEnd(TrimStart(t))

\* str::to_lowercase on ASCII text.
LowerChar(c) ==
  IF c \in Range(UpperChars) THEN LowerChars[IndexOf(UpperChars, c)] ELSE c

to_lowercase(t) == [i \in 1..Len(t) |-> LowerChar(t[i])]

\* Ord for str: byte-wise lexicographic comparison; "Less", "Equal" or "Greater".
RECURSIVE StrCmp(_, _)
StrCmp(a, b) ==
  IF a = <<>> /\ b = <<>> THEN "Equal"
  ELSE IF a = <<>> THEN "Less"
  ELSE IF b = <<>> THEN "Greater"
  ELSE IF CharCode(Head(a)) < CharCode(Head(b)) THEN "Less"
  ELSE IF CharCode(Head(a)) > CharCode(Head(b)) THEN "Greater"
  ELSE StrCmp(Tail(a), Tail(b))

\* The value of a (possibly empty) run of decimal digits.
RECURSIVE DigitsVal(_)
DigitsVal(t) ==
  IF t = <<>> THEN 0 ELSE DigitsVal(SubSeq(t, 1, Len(t) - 1)) * 10 + DigitVal(t[Len(t)])

RECURSIVE Pow10(_)
Pow10(n) == IF n = 0 THEN 1 ELSE 10 * Pow10(n - 1)

AllDigits(t) == \A i \in 1..Len(t) : IsDigit(t[i])

(***************************************************************************)
(* Exact rationals standing for f64 values                                 *)
(***************************************************************************)
Abs(x) == IF x < 0 THEN -x ELSE x

RECURSIVE Gcd(_, _)
Gcd(a, b) == IF b = 0 THEN a ELSE Gcd(b, a % b)

Rat(n, d) ==
  LET s == IF d < 0 THEN -1 ELSE 1
      g == Gcd(Abs(n), Abs(d))
  IN  <<(s * n) \div g, (s * d) \div g>>

RInt(n) == <<n, 1>>
RZero == <<0, 1>>
RAdd(x, y) == Rat(x[1] * y[2] + y[1] * x[2], x[2] * y[2])
RSub(x, y) == Rat(x[1] * y[2] - y[1] * x[2], x[2] * y[2])
RMul(x, y) == Rat(x[1] * y[1], x[2] * y[2])
RDiv(x, y) == Rat(x[1] * y[2], x[2] * y[1])
RLeq(x, y) == x[1] * y[2] <= y[1] * x[2]
\* f64::max
RMax(x, y) == IF RLeq(x, y) THEN y ELSE x

(***************************************************************************)
(* Option values                                                           *)
(***************************************************************************)
None == [some |-> FALSE]
Some(v) == [some |-> TRUE, val |-> v]

(***************************************************************************)
(* str::parse::<f64> (line 715), for numerals written with an optional     *)
(* sign, digits and an optional decimal point.  The model's numeric texts  *)
(* hold no letter of an exponent, "inf" or "nan".                          *)
(***************************************************************************)
ParseF64(raw) ==
  LET signed == raw # <<>> /\ Head(raw) \in {"+", "-"}
      body   == IF signed THEN Tail(raw) ELSE raw
      dots   == { i \in 1..Len(body) : body[i] = "." }
      dot    == IF dots = {} THEN Len(body) + 1 ELSE CHOOSE i \in dots : \A j \in dots : i <= j
      int    == SubSeq(body, 1, dot - 1)
      frac   == SubSeq(body, dot + 1, Len(body))
      mag    == Rat(DigitsVal(int) * Pow10(Len(frac)) + DigitsVal(frac), Pow10(Len(frac)))
  IN  IF AllDigits(int) /\ AllDigits(frac) /\ Len(int) + Len(frac) >= 1
      THEN Some(IF signed /\ Head(raw) = "-" THEN <<-mag[1], mag[2]>> ELSE mag)
      ELSE None

\* parse_f64_field: value is the Option<&str> of record.get(index).
parse_f64_field(value) ==
  IF value.some /\ Trim(value.val) # <<>> THEN ParseF64(Trim(value.val)) ELSE None

\* required_string_field: value is the Option<&str> of record.get(index).
required_string_field(value) ==
  IF value.some /\ Trim(value.val) # <<>> THEN Some(Trim(value.val)) ELSE None

(***************************************************************************)
(* chrono::NaiveDate::parse_from_str for the three formats of              *)
(* parse_calendar_date.  A numeric item skips leading whitespace, takes    *)
(* one to `width` digits (any number after an explicit sign of %Y), a      *)
(* literal must match exactly, nothing may follow the last item, and the   *)
(* fields must name a day of the proleptic Gregorian calendar.             *)
(***************************************************************************)
RECURSIVE LeadingDigits(_, _)
LeadingDigits(s, max) ==
  IF max > 0 /\ s # <<>> /\ IsDigit(Head(s)) THEN 1 + LeadingDigits(Tail(s), max - 1) ELSE 0

\* scan::number(s, 1, max): the value and the rest, or nothing.
ScanNumber(s, max) ==
  LET n == LeadingDigits(s, max)
  IN  IF n = 0 THEN None
      ELSE Some([v |-> DigitsVal(SubSeq(s, 1, n)), rest |-> SubSeq(s, n + 1, Len(s))])

ScanNumeric(s0, item) ==
  LET s == TrimStart(s0)
  IN  IF item = "%Y"
      THEN IF s # <<>> /\ Head(s) = "-"
           THEN LET r == ScanNumber(Tail(s), Len(s))
                IN  IF r.some THEN Some([v |-> -r.val.v, rest |-> r.val.rest]) ELSE None
           ELSE IF s # <<>> /\ Head(s) = "+"
           THEN ScanNumber(Tail(s), Len(s))
           ELSE ScanNumber(s, 4)
      ELSE ScanNumber(s, 2)

RECURSIVE ParseItems(_, _, _)
ParseItems(s, items, parsed) ==
  IF items = <<>> THEN (IF s = <<>> THEN Some(parsed) ELSE None)
  ELSE LET it == Head(items)
       IN  IF it \in {"%Y", "%m", "%d"}
           THEN LET r == ScanNumeric(s, it)
                IN  IF r.some
                    THEN ParseItems(r.val.rest, Tail(items), [parsed EXCEPT ![it] = r.val.v])
                    ELSE None
           ELSE IF s # <<>> /\ Head(s) = it
                THEN ParseItems(Tail(s), Tail(items), parsed)
                ELSE None

IsLeapYear(y) == (y % 4 = 0 /\ y % 100 # 0) \/ y % 400 = 0

DaysInMonth(y, m) ==
  IF m = 2 THEN (IF IsLeapYear(y) THEN 29 ELSE 28)
  ELSE IF m \in {4, 6, 9, 11} THEN 30 ELSE 31

\* NaiveDate::parse_from_str(value, format)
ParseFromStr(value, format) ==
  LET r == ParseItems(value, format, [i \in {"%Y", "%m", "%d"} |-> 0])
  IN  IF r.some /\ r.val["%m"] \in 1..12
         /\ r.val["%d"] \in 1..DaysInMonth(r.val["%Y"], r.val["%m"])
      THEN Some([y |-> r.val["%Y"], m |-> r.val["%m"], d |-> r.val["%d"]])
      ELSE None

FORMATS ==
  << <<"%Y", "-", "%m", "-", "%d">>,
     <<"%m", "/", "%d", "/", "%Y">>,
     <<"%d", "/", "%m", "/", "%Y">> >>

\* parse_calendar_date: the first format that parses wins.
RECURSIVE TryFormats(_, _)
TryFormats(value, i) ==
  IF i > Len(FORMATS) THEN None
  ELSE LET r == ParseFromStr(value, FORMATS[i])
       IN  IF r.some THEN r ELSE TryFormats(value, i + 1)

parse_calendar_date(value) == TryFormats(value, 1)

\* Days since 1970-01-01 in the proleptic Gregorian calendar.
DaysFromCivil(date) ==
  LET y   == IF date.m <= 2 THEN date.y - 1 ELSE date.y
      era == y \div 400
      yoe == y - era * 400
      mp  == IF date.m > 2 THEN date.m - 3 ELSE date.m + 9
      doy == (153 * mp + 2) \div 5 + date.d - 1
      doe == yoe * 365 + yoe \div 4 - yoe \div 100 + doy
  IN  era * 146097 + doe - 719468

\* Weekday, in the order of WEEKDAY_ORDER.
WEEKDAY_ORDER == <<"Mon", "Tue", "Wed", "Thu", "Fri", "Sat", "Sun">>

\* NaiveDate::weekday: 1970-01-01 was a Thursday.
DateWeekday(date) == WEEKDAY_ORDER[((DaysFromCivil(date) + 3) % 7) + 1]

\* Ord for NaiveDate
DateCmp(a, b) ==
  IF DaysFromCivil(a) < DaysFromCivil(b) THEN "Less"
  ELSE IF DaysFromCivil(a) > DaysFromCivil(b) THEN "Greater"
  ELSE "Equal"

\* The names parse_weekday_name matches, as texts.
MON == <<"m", "o", "n">>
MONDAY == <<"m", "o", "n", "d", "a", "y">>
TUE == <<"t", "u", "e">>
TUES == <<"t", "u", "e", "s">>
TUESDAY == <<"t", "u", "e", "s", "d", "a", "y">>
WED == <<"w", "e", "d">>
WEDNESDAY == <<"w", "e", "d", "n", "e", "s", "d", "a", "y">>
THU == <<"t", "h", "u">>
THUR == <<"t", "h", "u", "r">>
THURS == <<"t", "h", "u", "r", "s">>
THURSDAY == <<"t", "h", "u", "r", "s", "d", "a", "y">>
FRI == <<"f", "r", "i">>
FRIDAY == <<"f", "r", "i", "d", "a", "y">>
SAT == <<"s", "a", "t">>
SATURDAY == <<"s", "a", "t", "u", "r", "d", "a", "y">>
SUN == <<"s", "u", "n">>
SUNDAY == <<"s", "u", "n", "d", "a", "y">>

parse_weekday_name(value) ==
  LET normalized == to_lowercase(Trim(value))
  IN  IF normalized \in {MON, MONDAY} THEN Some("Mon")
      ELSE IF normalized \in {TUE, TUES, TUESDAY} THEN Some("Tue")
      ELSE IF normalized \in {WED, WEDNESDAY} THEN Some("Wed")
      ELSE IF normalized \in {THU, THUR, THURS, THURSDAY} THEN Some("Thu")
      ELSE IF normalized \in {FRI, FRIDAY} THEN Some("Fri")
      ELSE IF normalized \in {SAT, SATURDAY} THEN Some("Sat")
      ELSE IF normalized \in {SUN, SUNDAY} THEN Some("Sun")
      ELSE None

\* A variant of determine_weekday that prefers a recognised label to the date.
determine_weekday_label_first(day) ==
  LET date == parse_calendar_date(day.calendar_date)
      name == parse_weekday_name(day.weekday)
  IN  IF name.some THEN name
      ELSE IF date.some THEN Some(DateWeekday(date.val)) ELSE None

\* determine_weekday: the parsed date's weekday, else the label's.
determine_weekday(day) ==
  LET date == parse_calendar_date(day.calendar_date)
  IN  IF date.some THEN Some(DateWeekday(date.val)) ELSE parse_weekday_name(day.weekday)

compare_metrics(a, b) ==
  LET a_date == parse_calendar_date(a.calendar_date)
      b_date == parse_calendar_date(b.calendar_date)
  IN  IF a_date.some /\ b_date.some THEN DateCmp(a_date.val, b_date.val)
      ELSE IF a_date.some THEN "Less"
      ELSE IF b_date.some THEN "Greater"
      ELSE StrCmp(a.calendar_date, b.calendar_date)

\* Vec::sort_by is a stable sort: each record goes after every record that does not
\* compare greater than it.
RECURSIVE InsertSorted(_, _)
InsertSorted(sorted, x) ==
  IF sorted = <<>> THEN <<x>>
  ELSE IF compare_metrics(sorted[Len(sorted)], x) = "Greater"
       THEN Append(InsertSorted(SubSeq(sorted, 1, Len(sorted) - 1), x), sorted[Len(sorted)])
       ELSE Append(sorted, x)

\* A variant of sort_metrics_by_date that is not stable: records that compare equal come
\* out in the reverse of their insertion order.
RECURSIVE sort_metrics_ties_reversed(_)
sort_metrics_ties_reversed(records) ==
  IF records = <<>> THEN <<>>
  ELSE InsertSorted(sort_metrics_ties_reversed(Tail(records)), Head(records))

RECURSIVE sort_metrics_by_date(_)
sort_metrics_by_date(records) ==
  IF records = <<>> THEN <<>>
  ELSE InsertSorted(sort_metrics_by_date(SubSeq(records, 1, Len(records) - 1)),
                    records[Len(records)])

\* Iterator::take
Take(s, n) == SubSeq(s, 1, IF n < Len(s) THEN n ELSE Len(s))

(***************************************************************************)
(* Column Resolver: locate_required_columns and find_index                 *)
(***************************************************************************)
COL_ID == <<"I", "D">>
COL_DATE == <<"c", "a", "l", "e", "n", "d", "a", "r", "_", "d", "a", "t", "e">>
COL_WEEKDAY == <<"w", "e", "e", "k", "d", "a", "y">>
COL_SLEEP == <<"d", "u", "r", "_", "s", "p", "t", "_", "m", "i", "n">>
DURATION_VARIANTS == <<<<"I", "N">>, <<"L", "I", "G">>, <<"M", "O", "D">>, <<"V", "I", "G">>>>

\* format!("dur_day_total_{}_min", variant)
DurationColumn(variant) == <<"d", "u", "r", "_", "d", "a", "y", "_", "t", "o", "t", "a", "l", "_">> \o variant \o <<"_", "m", "i", "n">>

\* The eight required names, in the order locate_required_columns looks them up.
RequiredColumns ==
  <<COL_ID, COL_DATE, COL_WEEKDAY, COL_SLEEP>>
    \o [i \in 1..Len(DURATION_VARIANTS) |-> DurationColumn(DURATION_VARIANTS[i])]

\* headers.iter().position(|header| header == name), 0-based.
Position(headers, name) ==
  LET hits == { i \in 1..Len(headers) : headers[i] = name }
  IN  IF hits = {} THEN None ELSE Some((CHOOSE i \in hits : \A j \in hits : i <= j) - 1)

to_lowercase_all(cells) == [i \in 1..Len(cells) |-> to_lowercase(cells[i])]

\* A variant of find_index that matches header cells without regard to case.
find_index_ignore_case(headers, name, missing) ==
  LET p == Position(to_lowercase_all(headers), to_lowercase(name))
  IN  IF p.some THEN [index |-> p.val, missing |-> missing]
      ELSE [index |-> 0, missing |-> Append(missing, name)]

\* find_index: the index, or 0 with the name pushed onto `missing`.
find_index(headers, name, missing) ==
  LET p == Position(headers, name)
  IN  IF p.some THEN [index |-> p.val, missing |-> missing]
      ELSE [index |-> 0, missing |-> Append(missing, name)]

\* Vec<String>::sort
RECURSIVE InsertName(_, _)
InsertName(sorted, x) ==
  IF sorted = <<>> THEN <<x>>
  ELSE IF StrCmp(sorted[Len(sorted)], x) = "Greater"
       THEN Append(InsertName(SubSeq(sorted, 1, Len(sorted) - 1), x), sorted[Len(sorted)])
       ELSE Append(sorted, x)

RECURSIVE SortNames(_)
SortNames(names) ==
  IF names = <<>> THEN <<>>
  ELSE InsertName(SortNames(SubSeq(names, 1, Len(names) - 1)), names[Len(names)])

\* Vec::dedup: drop each element equal to the one before it.
RECURSIVE Dedup(_)
Dedup(names) ==
  IF Len(names) <= 1 THEN names
  ELSE LET front == Dedup(SubSeq(names, 1, Len(names) - 1))
       IN  IF front[Len(front)] = names[Len(names)] THEN front
           ELSE Append(front, names[Len(names)])

\* The lookups of locate_required_columns, in order, threading `missing`.
RECURSIVE FindAll(_, _, _)
FindAll(headers, names, acc) ==
  IF names = <<>> THEN acc
  ELSE LET r == find_index(headers, Head(names), acc.missing)
       IN  FindAll(headers, Tail(names),
                   [indexes |-> Append(acc.indexes, r.index), missing |-> r.missing])

\* Result<ColumnLookup, Vec<String>>
locate_required_columns(headers) ==
  LET found == FindAll(headers, RequiredColumns, [indexes |-> <<>>, missing |-> <<>>])
  IN  IF found.missing = <<>>
      THEN [ok |-> TRUE,
            lookup |-> [id |-> found.indexes[1],
                        calendar_date |-> found.indexes[2],
                        weekday |-> found.indexes[3],
                        sleep_minutes |-> found.indexes[4],
                        total_durations |-> SubSeq(found.indexes, 5, 8)]]
      ELSE [ok |-> FALSE, missing |-> Dedup(SortNames(found.missing))]

(***************************************************************************)
(* Record Extractor: extract_metrics_from_record                           *)
(***************************************************************************)
\* StringRecord::get(index), 0-based.
Get(record, index) == IF index < Len(record) THEN Some(record[index + 1]) ELSE None

\* The four duration columns, in order; nothing as soon as one fails.
RECURSIVE ParseTotals(_, _, _)
ParseTotals(record, indexes, acc) ==
  IF indexes = <<>> THEN Some(acc)
  ELSE LET v == parse_f64_field(Get(record, Head(indexes)))
       IN  IF v.some THEN ParseTotals(record, Tail(indexes), Append(acc, v.val)) ELSE None

\* A variant of extract_metrics_from_record that extracts per field: a blank weekday
\* is kept as the empty text instead of skipping the row.
extract_metrics_per_field(record, columns) ==
  LET id            == required_string_field(Get(record, columns.id))
      calendar_date == required_string_field(Get(record, columns.calendar_date))
      weekday       == required_string_field(Get(record, columns.weekday))
      totals        == ParseTotals(record, columns.total_durations, <<>>)
      sleep_minutes == parse_f64_field(Get(record, columns.sleep_minutes))
  IN  IF ~id.some \/ ~calendar_date.some \/ ~totals.some \/ ~sleep_minutes.some THEN None
      ELSE Some([id |-> id.val,
                 calendar_date |-> calendar_date.val,
                 weekday |-> IF weekday.some THEN weekday.val ELSE <<>>,
                 total_in_min |-> totals.val[1],
                 total_lig_min |-> totals.val[2],
                 total_mod_min |-> totals.val[3],
                 total_vig_min |-> totals.val[4],
                 sleep_minutes |-> sleep_minutes.val])

extract_metrics_from_record(record, columns) ==
  LET id            == required_string_field(Get(record, columns.id))
      calendar_date == required_string_field(Get(record, columns.calendar_date))
      weekday       == required_string_field(Get(record, columns.weekday))
      totals        == ParseTotals(record, columns.total_durations, <<>>)
      sleep_minutes == parse_f64_field(Get(record, columns.sleep_minutes))
  IN  IF ~id.some THEN None
      ELSE IF ~calendar_date.some THEN None
      ELSE IF ~weekday.some THEN None
      ELSE IF ~totals.some THEN None
      ELSE IF ~sleep_minutes.some THEN None
      ELSE Some([id |-> id.val,
                 calendar_date |-> calendar_date.val,
                 weekday |-> weekday.val,
                 total_in_min |-> totals.val[1],
                 total_lig_min |-> totals.val[2],
                 total_mod_min |-> totals.val[3],
                 total_vig_min |-> totals.val[4],
                 sleep_minutes |-> sleep_minutes.val])

\* matrix.entry(id_key).or_default().push(metrics)
PushMetrics(m, metrics) ==
  IF metrics.id \in DOMAIN m
  THEN [m EXCEPT ![metrics.id] = Append(@, metrics)]
  ELSE [k \in DOMAIN m \cup {metrics.id} |-> IF k = metrics.id THEN <<metrics>> ELSE m[k]]

\* HashMap::new()
EmptyMap == [k \in {} |-> <<>>]

(***************************************************************************)
(* Aggregator: the arithmetic of compute_weekly_summary                    *)
(***************************************************************************)
\* The cap of days_to_use, the 7.0 of the rescaling and of the daily figures.
WeekLength == 7
\* Minutes per hour: the 60.0 of the conversions.
MinutesPerHour == 60

ToHours(minutes) == RDiv(minutes, RInt(MinutesPerHour))

Min(a, b) == IF a < b THEN a ELSE b

\* A variant of GroupTotals that subtracts sleep from inactive time day by day.
RECURSIVE GroupTotalsNetInactive(_)
GroupTotalsNetInactive(days) ==
  IF days = <<>> THEN [totals |-> [i \in 1..5 |-> RZero], mvpa_minutes |-> RZero]
  ELSE LET acc == GroupTotalsNetInactive(SubSeq(days, 1, Len(days) - 1))
           day == days[Len(days)]
       IN  [totals |-> <<RAdd(acc.totals[1], ToHours(day.sleep_minutes)),
                         RAdd(acc.totals[2],
                              ToHours(RSub(day.total_in_min, day.sleep_minutes))),
                         RAdd(acc.totals[3], ToHours(day.total_lig_min)),
                         RAdd(acc.totals[4], ToHours(day.total_mod_min)),
                         RAdd(acc.totals[5], ToHours(day.total_vig_min))>>,
            mvpa_minutes |-> RAdd(acc.mvpa_minutes, RAdd(day.total_mod_min, day.total_vig_min))]

\* The body of the loop over one group's retained days: totals and mvpa_minutes.
RECURSIVE GroupTotals(_)
GroupTotals(days) ==
  IF days = <<>> THEN [totals |-> [i \in 1..5 |-> RZero], mvpa_minutes |-> RZero]
  ELSE LET acc == GroupTotals(SubSeq(days, 1, Len(days) - 1))
           day == days[Len(days)]
       IN  [totals |-> <<RAdd(acc.totals[1], ToHours(day.sleep_minutes)),
                         RAdd(acc.totals[2], ToHours(day.total_in_min)),
                         RAdd(acc.totals[3], ToHours(day.total_lig_min)),
                         RAdd(acc.totals[4], ToHours(day.total_mod_min)),
                         RAdd(acc.totals[5], ToHours(day.total_vig_min))>>,
            mvpa_minutes |-> RAdd(acc.mvpa_minutes, RAdd(day.total_mod_min, day.total_vig_min))]

\* A variant of AddSleep that adds the hours but does not count the observation.
AddSleepNoCount(wst, weekday, sleep_hours) ==
  IF weekday \in DOMAIN wst
  THEN [wst EXCEPT ![weekday] = <<RAdd(@[1], sleep_hours), @[2]>>]
  ELSE [w \in DOMAIN wst \cup {weekday} |->
          IF w = weekday THEN <<RAdd(RZero, sleep_hours), 1>> ELSE wst[w]]

\* weekday_sleep_totals.entry(weekday).or_insert((0.0, 0)), then both parts updated.
AddSleep(wst, weekday, sleep_hours) ==
  IF weekday \in DOMAIN wst
  THEN [wst EXCEPT ![weekday] = <<RAdd(@[1], sleep_hours), @[2] + 1>>]
  ELSE [w \in DOMAIN wst \cup {weekday} |->
          IF w = weekday THEN <<RAdd(RZero, sleep_hours), 1>> ELSE wst[w]]

\* The weekday part of the loop over one group's retained days.
RECURSIVE WeekdayTotals(_, _)
WeekdayTotals(wst, days) ==
  IF days = <<>> THEN wst
  ELSE LET weekday == determine_weekday(Head(days))
       IN  WeekdayTotals(IF weekday.some
                         THEN AddSleep(wst, weekday.val, ToHours(Head(days).sleep_minutes))
                         ELSE wst,
                         Tail(days))

\* The sums over per_id_totals (lines 465-472).
RECURSIVE SumTotals(_)
SumTotals(per_id) ==
  IF per_id = <<>> THEN [totals |-> [i \in 1..5 |-> RZero], mvpa_minutes |-> RZero]
  ELSE LET acc == SumTotals(SubSeq(per_id, 1, Len(per_id) - 1))
           one == per_id[Len(per_id)]
       IN  [totals |-> [i \in 1..5 |-> RAdd(acc.totals[i], one.totals[i])],
            mvpa_minutes |-> RAdd(acc.mvpa_minutes, one.mvpa_minutes)]

\* A variant of Rescale that projects to the week without averaging over participants.
RescaleNoMean(value, participant_count, days) ==
  RMul(value, RDiv(RInt(WeekLength), RInt(days)))

\* value /= participant_count; value *= 7.0 / days_to_use
Rescale(value, participant_count, days) ==
  RMul(RDiv(value, RInt(participant_count)), RDiv(RInt(WeekLength), RInt(days)))

\* The loop over WEEKDAY_ORDER (lines 501-507).
RECURSIVE SleepByWeekday(_, _)
SleepByWeekday(wst, i) ==
  IF i > Len(WEEKDAY_ORDER) THEN <<>>
  ELSE LET weekday == WEEKDAY_ORDER[i]
       IN  (IF weekday \in DOMAIN wst /\ wst[weekday][2] > 0
            THEN << <<weekday, RDiv(wst[weekday][1], RInt(wst[weekday][2]))>> >>
            ELSE <<>>) \o SleepByWeekday(wst, i + 1)

\* A variant of DailyFigures whose sedentary hours are not floored at zero.
DailyFiguresNoFloor(weekly_average, weekly_mvpa_minutes) ==
  LET daily_average_hours == [i \in 1..5 |-> RDiv(weekly_average[i], RInt(WeekLength))]
  IN  [daily_average_hours |-> daily_average_hours,
       daily_mvpa_minutes |-> RDiv(weekly_mvpa_minutes, RInt(WeekLength)),
       daily_sedentary_hours |-> RSub(daily_average_hours[2], daily_average_hours[1])]

\* The daily figures (lines 483-489).
DailyFigures(weekly_average, weekly_mvpa_minutes) ==
  LET daily_average_hours == [i \in 1..5 |-> RDiv(weekly_average[i], RInt(WeekLength))]
  IN  [daily_average_hours |-> daily_average_hours,
       daily_mvpa_minutes |-> RDiv(weekly_mvpa_minutes, RInt(WeekLength)),
       daily_sedentary_hours |->
         RMax(RSub(daily_average_hours[2], daily_average_hours[1]), RZero)]

\* Lines 465-516: the WeeklySummary built from the accumulated totals.
BuildSummary(per_id, wst, days) ==
  LET sums  == SumTotals(per_id)
      count == Len(per_id)
      weekly_average == [i \in 1..5 |-> Rescale(sums.totals[i], count, days)]
      weekly_mvpa_minutes == Rescale(sums.mvpa_minutes, count, days)
      daily == DailyFigures(weekly_average, weekly_mvpa_minutes)
  IN  [average_hours |-> weekly_average,
       weekly_mvpa_minutes |-> weekly_mvpa_minutes,
       daily_average_hours |-> daily.daily_average_hours,
       daily_mvpa_minutes |-> daily.daily_mvpa_minutes,
       daily_sedentary_hours |-> daily.daily_sedentary_hours,
       average_sleep_by_weekday |-> SleepByWeekday(wst, 1)]

\* valid_groups.iter().map(|records| records.len()).min().unwrap_or(0)
MinLen(groups) ==
  IF groups = <<>> THEN 0
  ELSE CHOOSE n \in { Len(groups[i]) : i \in 1..Len(groups) } :
         \A i \in 1..Len(groups) : n <= Len(groups[i])

\* A variant of DaysToUse without the cap at seven days.
DaysToUseUncapped(groups) == MinLen(groups)

\* Lines 422-432: min_days.min(7), min_days the least group length.
DaysToUse(groups) == Min(MinLen(groups), WeekLength)

\* The orders in which a HashMap may yield its keys.
Orderings(S) ==
  { s \in [1..Cardinality(S) -> S] : \A i, j \in 1..Cardinality(S) : s[i] = s[j] => i = j }

\* A variant of CollectValid that keeps the empty groups.
RECURSIVE CollectAll(_, _)
CollectAll(d, order) ==
  IF order = <<>> THEN <<>> ELSE <<d[Head(order)]>> \o CollectAll(d, Tail(order))

\* Lines 409-416: the non-empty groups, cloned, in the map's iteration order.
RECURSIVE CollectValid(_, _)
CollectValid(d, order) ==
  IF order = <<>> THEN <<>>
  ELSE (IF d[Head(order)] = <<>> THEN <<>> ELSE <<d[Head(order)]>>)
         \o CollectValid(d, Tail(order))

(***************************************************************************)
(* Bounds and the inputs the model draws from                              *)
(***************************************************************************)
\* Files one scan opens, rows one scan reads, days one group of an aggregator
\* input holds, calls of compute_weekly_summary on one input.
MaxFiles == 2
MaxRows == 3
MaxDays == 8
MaxRuns == 2
\* Records in the longer group of an input of the ordering runs.
MaxGroup == 3

P1 == <<"P", "1">>
P2 == <<"P", "2">>
P3 == <<"P", "3">>

\* A row as the file holds it, by column name; err: the reader fails on it.
Row(id, date, wd, spt, tin, lig, mod, vig) ==
  [err |-> FALSE, id |-> id, calendar_date |-> date, weekday |-> wd,
   spt |-> spt, tin |-> tin, lig |-> lig, mod |-> mod, vig |-> vig]

GoodRow1 == Row(P1, <<"2", "0", "2", "4", "-", "0", "3", "-", "0", "4">>, <<"M", "o", "n", "d", "a", "y">>, <<"4", "8", "0">>, <<"6", "0", "0">>, <<"1", "2", "0">>, <<"3", "0">>, <<"1", "0">>)
GoodRow2 == Row(<<" ", "P", "2", " ">>, <<"0", "3", "/", "0", "5", "/", "2", "0", "2", "4">>, <<"f", "r", "i">>, <<"7", "2", "0">>, <<"6", "6", "0", ".", "5">>, <<"9", "0">>, <<"4", "5">>, <<"0">>)
NegativeRow == Row(P1, <<"n", "/", "a">>, <<" ", "S", "u", "n">>, <<"-", "6", "0">>, <<"5", "0", "0">>, <<"1", "0", "0">>, <<"-", "2", "0">>, <<"+", "5">>)
BlankIdRow == Row(<<" ", " ">>, <<"2", "0", "2", "4", "-", "0", "3", "-", "0", "6">>, <<"W", "e", "d">>, <<"4", "8", "0">>, <<"6", "0", "0">>, <<"1", "2", "0">>, <<"3", "0">>, <<"1", "0">>)
BlankDateRow == Row(P2, <<>>, <<"W", "e", "d">>, <<"4", "8", "0">>, <<"6", "0", "0">>, <<"1", "2", "0">>, <<"3", "0">>, <<"1", "0">>)
BlankWeekdayRow == Row(P1, <<"2", "0", "2", "4", "-", "0", "3", "-", "0", "6">>, <<" ">>, <<"4", "8", "0">>, <<"6", "0", "0">>, <<"1", "2", "0">>, <<"3", "0">>, <<"1", "0">>)
BadNumberRow == Row(P1, <<"2", "0", "2", "4", "-", "0", "3", "-", "0", "7">>, <<"T", "h", "u">>, <<"4", "8", "0">>, <<"6", "0", "0">>, <<"1", "2", "0">>, <<"3", "x">>, <<"1", "0">>)
BlankSleepRow == Row(P2, <<"2", "0", "2", "4", "-", "0", "3", "-", "0", "8">>, <<"F", "r", "i">>, <<>>, <<"6", "0", "0">>, <<"1", "2", "0">>, <<"3", "0">>, <<"1", "0">>)
UnreadableRow == [GoodRow1 EXCEPT !.err = TRUE]

SampleRows ==
  {GoodRow1, GoodRow2, NegativeRow, BlankIdRow, BlankDateRow, BlankWeekdayRow,
   BadNumberRow, BlankSleepRow, UnreadableRow}

\* The cell of `row` under the column named `name`; other columns hold other data.
FieldOf(row, name) ==
  IF name = COL_ID THEN row.id
  ELSE IF name = COL_DATE THEN row.calendar_date
  ELSE IF name = COL_WEEKDAY THEN row.weekday
  ELSE IF name = COL_SLEEP THEN row.spt
  ELSE IF name = DurationColumn(DURATION_VARIANTS[1]) THEN row.tin
  ELSE IF name = DurationColumn(DURATION_VARIANTS[2]) THEN row.lig
  ELSE IF name = DurationColumn(DURATION_VARIANTS[3]) THEN row.mod
  ELSE IF name = DurationColumn(DURATION_VARIANTS[4]) THEN row.vig
  ELSE <<"9", ".", "9">>

\* csv::Trim::All: the reader trims header cells and fields.
TrimAll(cells) == [i \in 1..Len(cells) |-> Trim(cells[i])]

\* The StringRecord the reader yields for `row` in a file with these headers.
ReaderRecord(hdrs, row) == TrimAll([i \in 1..Len(hdrs) |-> FieldOf(row, hdrs[i])])

StandardHeader == RequiredColumns
ShuffledHeader ==
  <<<<"f", "i", "l", "e", "n", "a", "m", "e">>, COL_WEEKDAY, <<" ", "I", "D", " ">>, DurationColumn(DURATION_VARIANTS[4]),
    DurationColumn(DURATION_VARIANTS[3]), COL_ID, DurationColumn(DURATION_VARIANTS[2]),
    DurationColumn(DURATION_VARIANTS[1]), COL_SLEEP, COL_DATE>>
LowercaseHeader ==
  <<<<"i", "d">>, COL_DATE, COL_WEEKDAY, COL_SLEEP, DurationColumn(DURATION_VARIANTS[1]),
    DurationColumn(DURATION_VARIANTS[2]), DurationColumn(DURATION_VARIANTS[3])>>

\* The files a scan may meet: unopenable, with an unreadable header, or with a header.
SampleFiles ==
  {[opens |-> FALSE, readable |-> FALSE, raw |-> <<>>],
   [opens |-> TRUE, readable |-> FALSE, raw |-> <<>>]}
    \cup {[opens |-> TRUE, readable |-> TRUE, raw |-> h] :
            h \in {StandardHeader, ShuffledHeader, LowercaseHeader}}

\* The header cells the Column Resolver is tried on: every selection of these cells,
\* in this order and in the reverse order.
HeaderCells ==
  <<COL_ID, <<"i", "d">>, COL_DATE, COL_WEEKDAY, COL_SLEEP, DurationColumn(DURATION_VARIANTS[1]),
    DurationColumn(DURATION_VARIANTS[2]), DurationColumn(DURATION_VARIANTS[3]),
    DurationColumn(DURATION_VARIANTS[4]), COL_WEEKDAY, <<"W", "e", "e", "k", "d", "a", "y">>>>

RECURSIVE Select(_, _, _)
Select(cells, keep, i) ==
  IF i > Len(cells) THEN <<>>
  ELSE (IF i \in keep THEN <<cells[i]>> ELSE <<>>) \o Select(cells, keep, i + 1)

Reverse(s) == [i \in 1..Len(s) |-> s[Len(s) + 1 - i]]

HeaderPool ==
  UNION { {Select(HeaderCells, keep, 1), Reverse(Select(HeaderCells, keep, 1))} :
            keep \in SUBSET (1..Len(HeaderCells)) }

\* Day records an aggregator input is made of (id filled in per participant).
Day(date, wd, sleep, tin, lig, mod, vig) ==
  [id |-> <<>>, calendar_date |-> date, weekday |-> wd, total_in_min |-> tin,
   total_lig_min |-> lig, total_mod_min |-> mod, total_vig_min |-> vig,
   sleep_minutes |-> sleep]

DayTemplates ==
  <<Day(<<"2", "0", "2", "4", "-", "0", "3", "-", "0", "4">>, <<"M", "o", "n", "d", "a", "y">>, RInt(480), RInt(600), RInt(120), RInt(30), RInt(10)),
    Day(<<"0", "3", "/", "0", "5", "/", "2", "0", "2", "4">>, <<"f", "r", "i">>, RInt(420), Rat(1321, 2), RInt(90), RInt(45), RInt(0)),
    Day(<<"n", "/", "a">>, <<"S", "u", "n">>, RInt(-60), RInt(500), RInt(100), RInt(-20), RInt(5)),
    Day(<<"1", "3", "/", "0", "3", "/", "2", "0", "2", "4">>, <<"w", "e", "d", "n", "e", "s", "d", "a", "y">>, RInt(450), RInt(610), RInt(80), RInt(15), RInt(25)),
    Day(<<"2", "0", "2", "4", "-", "0", "3", "-", "0", "2">>, <<"S", "a", "t">>, RInt(700), RInt(300), RInt(200), RInt(60), RInt(7)),
    Day(<<"u", "n", "k", "n", "o", "w", "n">>, <<"s", "o", "m", "e", "d", "a", "y">>, RInt(400), RInt(640), RInt(110), RInt(12), RInt(3))>>

\* The first n days of a diary that walks the templates from `offset` in steps of `stride`.
Diary(id, offset, stride, n) ==
  [i \in 1..n |->
     [DayTemplates[((offset + (i - 1) * stride) % Len(DayTemplates)) + 1] EXCEPT !.id = id]]

\* What an aggregator input may hold for one participant: no key, or a group.
GroupChoices(id, walks) ==
  {None} \cup { Some(Diary(id, w[1], w[2], n)) : w \in walks, n \in 0..MaxDays }

MapOf(c1, c2, c3) ==
  LET present == (IF c1.some THEN {P1} ELSE {}) \cup (IF c2.some THEN {P2} ELSE {})
                   \cup (IF c3.some THEN {P3} ELSE {})
  IN  [k \in present |-> IF k = P1 THEN c1.val ELSE IF k = P2 THEN c2.val ELSE c3.val]

AggInputs ==
  { MapOf(c1, c2, c3) : c1 \in GroupChoices(P1, {<<0, 0>>}),
                        c2 \in GroupChoices(P2, {<<2, 5>>}),
                        c3 \in GroupChoices(P3, {<<4, 1>>}) }

\* Day records for the ordering of one group: two spellings of one date, an earlier and
\* a later date, and unparseable dates, two of them with the same text.
OrderPool ==
  {Day(<<"2", "0", "2", "4", "-", "0", "3", "-", "0", "4">>, <<"F", "r", "i", "d", "a", "y">>, RInt(480), RInt(600), RInt(120), RInt(30), RInt(10)),
   Day(<<"0", "3", "/", "0", "4", "/", "2", "0", "2", "4">>, <<"m", "o", "n">>, RInt(420), RInt(610), RInt(90), RInt(45), RInt(0)),
   Day(<<"2", "0", "2", "4", "-", "0", "3", "-", "0", "2">>, <<"S", "a", "t">>, RInt(700), RInt(300), RInt(200), RInt(60), RInt(7)),
   Day(<<"1", "3", "/", "0", "3", "/", "2", "0", "2", "4">>, <<"w", "e", "d">>, RInt(450), RInt(620), RInt(80), RInt(15), RInt(25)),
   Day(<<"n", "/", "a">>, <<"S", "u", "n">>, RInt(400), RInt(640), RInt(110), RInt(12), RInt(3)),
   Day(<<"n", "/", "a">>, <<"t", "u", "e", "s">>, RInt(360), RInt(650), RInt(100), RInt(20), RInt(5)),
   Day(<<"N", "/", "A">>, <<>>, RInt(390), RInt(630), RInt(70), RInt(10), RInt(2))}

\* The groups of up to n records of the pool, in every order, for participant id.
GroupsOver(id, n) ==
  UNION { [1..k -> { [d EXCEPT !.id = id] : d \in OrderPool }] : k \in 0..n }

\* Inputs of the ordering runs: one participant with any such group, beside a second
\* participant that is absent or has one or two records.
OrderInputs ==
  { MapOf(Some(g), c2, None) : g \in GroupsOver(P1, MaxGroup),
                               c2 \in {None, Some(Diary(P2, 0, 1, 1)), Some(Diary(P2, 0, 1, 2))} }

\* Dates and weekday labels a day record may carry: the three date formats, a leap day,
\* a day that does not exist, texts that are no date; names in several spellings and
\* cases, padded, unrecognised and empty.
WeekdayDates ==
  {<<"2", "0", "2", "4", "-", "0", "3", "-", "0", "4">>,
   <<"0", "3", "/", "0", "5", "/", "2", "0", "2", "4">>,
   <<"1", "3", "/", "0", "3", "/", "2", "0", "2", "4">>,
   <<"2", "0", "2", "4", "-", "0", "2", "-", "2", "9">>,
   <<"2", "0", "2", "3", "-", "0", "2", "-", "2", "9">>,
   <<"2", "0", "2", "4", "-", "3", "-", "4">>,
   <<"1", "2", "/", "3", "1", "/", "1", "9", "9", "9">>,
   <<"2", "0", "0", "0", "-", "0", "1", "-", "0", "1">>,
   <<"2", "0", "2", "4", "-", "0", "3", "-", "1", "0">>,
   <<"n", "/", "a">>,
   <<>>}

WeekdayLabels ==
  {<<"F", "r", "i", "d", "a", "y">>,
   <<"m", "o", "n">>,
   <<" ", "T", "U", "E", "S", " ">>,
   <<"W", "e", "d">>,
   <<"t", "h", "u", "r", "s">>,
   <<"S", "A", "T">>,
   <<"s", "u", "n", "d", "a", "y">>,
   <<"F", "r", "i", "y", "a", "y">>,
   <<>>,
   <<"m", "o", "n", "d", "a", "y">>,
   <<"t", "h", "u", "r">>}

\* Inputs of the weekday runs: one participant with one day record.
WeekdayInputs ==
  { MapOf(Some(<<[Day(date, label, RInt(480), RInt(600), RInt(120), RInt(30), RInt(10))
                    EXCEPT !.id = P1]>>), None, None) :
      date \in WeekdayDates, label \in WeekdayLabels }

(***************************************************************************)
(* State                                                                   *)
(***************************************************************************)
VARIABLES
  pc,                   \* where the run stands
  files_read,           \* collect_activity_metrics: iterations of `for file in files` begun
  bad_file,             \* the iteration whose file failed to open or resolve, 0 if none
  headers,              \* the current file's header, as the reader yields it
  column_lookup,        \* the current file's ColumnLookup
  located,              \* the last result of locate_required_columns
  consumed,             \* the rows the scan has read so far, in order
  matrix,               \* collect_activity_metrics: the map being built
  outcome,              \* what collect_activity_metrics returned
  data,                 \* compute_weekly_summary: its argument
  given,                \* the argument as the caller built it, before any call
  valid_groups,         \* the cloned non-empty groups still to be processed
  days_to_use,
  per_id_totals,
  weekday_sleep_totals,
  retained,             \* per processed group, the days the take() loop visited
  summary,              \* what compute_weekly_summary returned
  runs,                 \* calls of compute_weekly_summary begun
  previous              \* what the call before the current one returned

vars ==
  <<pc, files_read, bad_file, headers, column_lookup, located, consumed, matrix, outcome,
    data, given, valid_groups, days_to_use, per_id_totals, weekday_sleep_totals, retained,
    summary, runs, previous>>

scanVars == <<files_read, bad_file, headers, column_lookup, located, consumed, matrix, outcome>>
aggVars ==
  <<data, given, valid_groups, days_to_use, per_id_totals, weekday_sleep_totals, retained,
    summary, runs, previous>>

NoLookup == [id |-> 0, calendar_date |-> 0, weekday |-> 0, sleep_minutes |-> 0,
             total_durations |-> <<0, 0, 0, 0>>]

Running == [state |-> "running"]
Ok == [state |-> "ok"]
Err(kind) == [state |-> "err", kind |-> kind]

ScanInit ==
  /\ files_read = 0
  /\ bad_file = 0
  /\ headers = <<>>
  /\ column_lookup = NoLookup
  /\ located = None
  /\ consumed = <<>>
  /\ matrix = EmptyMap
  /\ outcome = Running

AggInit ==
  /\ valid_groups = <<>>
  /\ days_to_use = 0
  /\ per_id_totals = <<>>
  /\ weekday_sleep_totals = EmptyMap
  /\ retained = <<>>
  /\ summary = None
  /\ runs = 0
  /\ previous = None

\* run_interactive, about to call collect_activity_metrics on a non-empty file list.
Init ==
  /\ pc = "files"
  /\ ScanInit
  /\ data = EmptyMap
  /\ given = EmptyMap
  /\ AggInit

(***************************************************************************)
(* collect_activity_metrics                                                *)
(***************************************************************************)
\* A variant of FileOpenError that skips the file and goes on with the next one.
FileOpenSkipped ==
  /\ pc = "files"
  /\ files_read < MaxFiles
  /\ \E f \in SampleFiles : ~f.opens
  /\ files_read' = files_read + 1
  /\ bad_file' = files_read + 1
  /\ UNCHANGED <<pc, headers, column_lookup, located, consumed, matrix, outcome>>
  /\ UNCHANGED aggVars

\* from_path fails: the `?` of line 366 returns the error.
FileOpenError ==
  /\ pc = "files"
  /\ files_read < MaxFiles
  /\ \E f \in SampleFiles : ~f.opens
  /\ files_read' = files_read + 1
  /\ bad_file' = files_read + 1
  /\ outcome' = Err("open")
  /\ matrix' = EmptyMap
  /\ pc' = "failed"
  /\ UNCHANGED <<headers, column_lookup, located, consumed>>
  /\ UNCHANGED aggVars

\* reader.headers() fails: the `?` of line 370 returns the error.
HeaderReadError ==
  /\ pc = "files"
  /\ files_read < MaxFiles
  /\ \E f \in SampleFiles : f.opens /\ ~f.readable
  /\ files_read' = files_read + 1
  /\ bad_file' = files_read + 1
  /\ outcome' = Err("headers")
  /\ matrix' = EmptyMap
  /\ pc' = "failed"
  /\ UNCHANGED <<headers, column_lookup, located, consumed>>
  /\ UNCHANGED aggVars

\* locate_required_columns fails: the `?` of line 379 returns the error.
MissingColumnsError ==
  /\ pc = "files"
  /\ files_read < MaxFiles
  /\ \E f \in SampleFiles :
       /\ f.opens /\ f.readable
       /\ ~locate_required_columns(TrimAll(f.raw)).ok
       /\ headers' = TrimAll(f.raw)
       /\ located' = locate_required_columns(TrimAll(f.raw))
  /\ files_read' = files_read + 1
  /\ bad_file' = files_read + 1
  /\ outcome' = Err("columns")
  /\ matrix' = EmptyMap
  /\ pc' = "failed"
  /\ UNCHANGED <<column_lookup, consumed>>
  /\ UNCHANGED aggVars

\* Lines 362-379 succeed: the row loop of this file begins.
FileOpened ==
  /\ pc = "files"
  /\ files_read < MaxFiles
  /\ \E f \in SampleFiles :
       /\ f.opens /\ f.readable
       /\ locate_required_columns(TrimAll(f.raw)).ok
       /\ headers' = TrimAll(f.raw)
       /\ located' = locate_required_columns(TrimAll(f.raw))
       /\ column_lookup' = locate_required_columns(TrimAll(f.raw)).lookup
  /\ files_read' = files_read + 1
  /\ pc' = "rows"
  /\ UNCHANGED <<bad_file, consumed, matrix, outcome>>
  /\ UNCHANGED aggVars

\* reader.records() yields Err: the row is skipped (lines 384-391).
RowReadError ==
  /\ pc = "rows"
  /\ Len(consumed) < MaxRows
  /\ \E row \in SampleRows :
       /\ row.err
       /\ consumed' = Append(consumed, row)
  /\ UNCHANGED <<pc, files_read, bad_file, headers, column_lookup, located, matrix, outcome>>
  /\ UNCHANGED aggVars

\* reader.records() yields a record: lines 394-397.
ReadRow ==
  /\ pc = "rows"
  /\ Len(consumed) < MaxRows
  /\ \E row \in SampleRows :
       LET metrics == extract_metrics_from_record(ReaderRecord(headers, row), column_lookup)
       IN  /\ ~row.err
           /\ consumed' = Append(consumed, row)
           /\ matrix' = IF metrics.some THEN PushMetrics(matrix, metrics.val) ELSE matrix
  /\ UNCHANGED <<pc, files_read, bad_file, headers, column_lookup, located, outcome>>
  /\ UNCHANGED aggVars

\* reader.records() is exhausted: on to the next file.
EndOfFile ==
  /\ pc = "rows"
  /\ pc' = "files"
  /\ UNCHANGED scanVars
  /\ UNCHANGED aggVars

\* The file list is exhausted: Ok(matrix), bound to activity_data (line 173) and
\* handed to compute_weekly_summary (line 187).  The list holds at least one file
\* (line 164).
ReturnMatrix ==
  /\ pc = "files"
  /\ files_read >= 1
  /\ outcome' = Ok
  /\ data' = matrix
  /\ given' = matrix
  /\ pc' = "aggregate"
  /\ UNCHANGED <<files_read, bad_file, headers, column_lookup, located, consumed, matrix>>
  /\ UNCHANGED <<valid_groups, days_to_use, per_id_totals, weekday_sleep_totals, retained,
                 summary, runs, previous>>

(***************************************************************************)
(* compute_weekly_summary                                                  *)
(***************************************************************************)
\* Lines 405-430: the early returns of None.
NoSummary ==
  /\ pc = "aggregate"
  /\ \E order \in Orderings(DOMAIN data) :
       LET groups == CollectValid(data, order)
       IN  DOMAIN data = {} \/ groups = <<>> \/ MinLen(groups) = 0
  /\ summary' = None
  /\ runs' = runs + 1
  /\ pc' = "done"
  /\ UNCHANGED <<data, given, valid_groups, days_to_use, per_id_totals,
                 weekday_sleep_totals, retained, previous>>
  /\ UNCHANGED scanVars

\* Lines 405-435 otherwise: valid_groups, days_to_use and the empty accumulators.
StartSummary ==
  /\ pc = "aggregate"
  /\ \E order \in Orderings(DOMAIN data) :
       LET groups == CollectValid(data, order)
       IN  /\ DOMAIN data # {}
           /\ groups # <<>>
           /\ MinLen(groups) # 0
           /\ valid_groups' = groups
           /\ days_to_use' = DaysToUse(groups)
  /\ per_id_totals' = <<>>
  /\ weekday_sleep_totals' = EmptyMap
  /\ retained' = <<>>
  /\ runs' = runs + 1
  /\ pc' = "groups"
  /\ UNCHANGED <<data, given, summary, previous>>
  /\ UNCHANGED scanVars

\* A variant of ProcessGroup that sorts and truncates the caller's group in place.
ProcessGroupInPlace ==
  /\ pc = "groups"
  /\ valid_groups # <<>>
  /\ \E records \in {sort_metrics_by_date(Head(valid_groups))} :
       \E days \in {Take(records, days_to_use)} :
         /\ per_id_totals' = Append(per_id_totals, GroupTotals(days))
         /\ weekday_sleep_totals' = WeekdayTotals(weekday_sleep_totals, days)
         /\ retained' = Append(retained, days)
         /\ data' = [data EXCEPT ![records[1].id] = days]
  /\ valid_groups' = Tail(valid_groups)
  /\ UNCHANGED <<pc, given, days_to_use, summary, runs, previous>>
  /\ UNCHANGED scanVars

\* One iteration of `for mut records in valid_groups` (lines 437-459).
ProcessGroup ==
  /\ pc = "groups"
  /\ valid_groups # <<>>
  /\ \E records \in {sort_metrics_by_date(Head(valid_groups))} :
       \E days \in {Take(records, days_to_use)} :
         /\ per_id_totals' = Append(per_id_totals, GroupTotals(days))
         /\ weekday_sleep_totals' = WeekdayTotals(weekday_sleep_totals, days)
         /\ retained' = Append(retained, days)
  /\ valid_groups' = Tail(valid_groups)
  /\ UNCHANGED <<pc, data, given, days_to_use, summary, runs, previous>>
  /\ UNCHANGED scanVars

\* Lines 461-516: the loop is over; None if nothing was accumulated, else the summary.
FinishSummary ==
  /\ pc = "groups"
  /\ valid_groups = <<>>
  /\ summary' = IF per_id_totals = <<>> THEN None
                ELSE Some(BuildSummary(per_id_totals, weekday_sleep_totals, days_to_use))
  /\ pc' = "done"
  /\ UNCHANGED <<data, given, valid_groups, days_to_use, per_id_totals,
                 weekday_sleep_totals, retained, runs, previous>>
  /\ UNCHANGED scanVars

\* compute_weekly_summary is called again on the same map.
Rerun ==
  /\ pc = "done"
  /\ runs < MaxRuns
  /\ previous' = Some(summary)
  /\ summary' = None
  /\ valid_groups' = <<>>
  /\ days_to_use' = 0
  /\ per_id_totals' = <<>>
  /\ weekday_sleep_totals' = EmptyMap
  /\ retained' = <<>>
  /\ pc' = "aggregate"
  /\ UNCHANGED <<data, given, runs>>
  /\ UNCHANGED scanVars

(***************************************************************************)
(* Specifications                                                          *)
(***************************************************************************)
\* One run of run_interactive from the scan on.
Next ==
  \/ FileOpenError
  \/ HeaderReadError
  \/ MissingColumnsError
  \/ FileOpened
  \/ RowReadError
  \/ ReadRow
  \/ EndOfFile
  \/ ReturnMatrix
  \/ NoSummary
  \/ StartSummary
  \/ ProcessGroup
  \/ FinishSummary

Spec == Init /\ [][Next]_vars

\* compute_weekly_summary as a function of its argument, called up to MaxRuns times.
InitAgg ==
  /\ pc = "aggregate"
  /\ ScanInit
  /\ data \in AggInputs
  /\ given = data
  /\ AggInit

NextAgg ==
  \/ NoSummary
  \/ StartSummary
  \/ ProcessGroup
  \/ FinishSummary
  \/ Rerun

SpecAgg == InitAgg /\ [][NextAgg]_vars

\* compute_weekly_summary on the inputs of the ordering runs.
InitOrder ==
  /\ pc = "aggregate"
  /\ ScanInit
  /\ data \in OrderInputs
  /\ given = data
  /\ AggInit

NextOrder ==
  \/ NoSummary
  \/ StartSummary
  \/ ProcessGroup
  \/ FinishSummary

SpecOrder == InitOrder /\ [][NextOrder]_vars

\* compute_weekly_summary on the inputs of the weekday runs: its loop calls
\* determine_weekday on the one day.
InitWeekday ==
  /\ pc = "aggregate"
  /\ ScanInit
  /\ data \in WeekdayInputs
  /\ given = data
  /\ AggInit

NextWeekday ==
  \/ StartSummary
  \/ ProcessGroup
  \/ FinishSummary

SpecWeekday == InitWeekday /\ [][NextWeekday]_vars

\* locate_required_columns as a function of the header.
InitColumns ==
  /\ pc = "locate"
  /\ ScanInit /\ AggInit
  /\ data = EmptyMap
  /\ given = EmptyMap

LocateColumns ==
  /\ pc = "locate"
  /\ \E h \in HeaderPool :
       /\ headers' = h
       /\ located' = locate_required_columns(h)
  /\ pc' = "located"
  /\ UNCHANGED <<files_read, bad_file, column_lookup, consumed, matrix, outcome>>
  /\ UNCHANGED aggVars

NextColumns == LocateColumns

SpecColumns == InitColumns /\ [][NextColumns]_vars

(***************************************************************************)
(* What the claims speak of                                                *)
(***************************************************************************)
NonBlank(t) == \E i \in 1..Len(t) : t[i] # " "

NumericCells(row) == <<row.tin, row.lig, row.mod, row.vig, row.spt>>

\* A row that is read without error, with a non-blank ID, date and weekday and a
\* parseable number in each of the five numeric columns.
RowAccepted(row) ==
  /\ ~row.err
  /\ NonBlank(row.id) /\ NonBlank(row.calendar_date) /\ NonBlank(row.weekday)
  /\ \A i \in 1..5 : NonBlank(NumericCells(row)[i]) /\ ParseF64(Trim(NumericCells(row)[i])).some

\* The day record an accepted row stands for.
RecordOf(row) ==
  [id |-> Trim(row.id),
   calendar_date |-> Trim(row.calendar_date),
   weekday |-> Trim(row.weekday),
   total_in_min |-> ParseF64(Trim(row.tin)).val,
   total_lig_min |-> ParseF64(Trim(row.lig)).val,
   total_mod_min |-> ParseF64(Trim(row.mod)).val,
   total_vig_min |-> ParseF64(Trim(row.vig)).val,
   sleep_minutes |-> ParseF64(Trim(row.spt)).val]

\* Per trimmed ID, the records of the accepted rows of `rows`, in the order of `rows`.
GroupsOf(rows) ==
  LET accepted == SelectSeq(rows, RowAccepted)
      records  == [i \in 1..Len(accepted) |-> RecordOf(accepted[i])]
  IN  [k \in { records[i].id : i \in 1..Len(records) } |->
         SelectSeq(records, LAMBDA r : r.id = k)]

ScanOver == pc \notin {"files", "rows", "locate", "located"}

C2_RowsAllOrNothing ==
  /\ pc \in {"files", "rows"} => matrix = GroupsOf(consumed)
  /\ outcome = Ok => data = GroupsOf(consumed)
  /\ \A k \in DOMAIN matrix : matrix[k] # <<>>
  /\ \A k \in DOMAIN data : data[k] # <<>>

\* C2 witness: a scan of two files returned a group of two records, one of them read
\* after a skipped row.
C2_Witness ==
  /\ outcome = Ok
  /\ files_read = 2
  /\ \E k \in DOMAIN data : Len(data[k]) >= 2
  /\ \E i, j \in 1..Len(consumed) :
       i < j /\ ~RowAccepted(consumed[i]) /\ RowAccepted(consumed[j])

AbsentColumns(hdrs) == { name \in Range(RequiredColumns) : name \notin Range(hdrs) }

\* C9: locate_required_columns returns a column map exactly when no required name is
\* absent from the header (by exact equality), and then each index points at a cell equal
\* to its name; otherwise it returns the absent names, each once, and no column map.
C9_ColumnsResolved ==
  pc = "located" =>
    IF AbsentColumns(headers) = {}
    THEN /\ located.ok
         /\ headers[located.lookup.id + 1] = COL_ID
         /\ headers[located.lookup.calendar_date + 1] = COL_DATE
         /\ headers[located.lookup.weekday + 1] = COL_WEEKDAY
         /\ headers[located.lookup.sleep_minutes + 1] = COL_SLEEP
         /\ \A i \in 1..4 :
              headers[located.lookup.total_durations[i] + 1]
                = DurationColumn(DURATION_VARIANTS[i])
    ELSE /\ ~located.ok
         /\ "lookup" \notin DOMAIN located
         /\ Range(located.missing) = AbsentColumns(headers)
         /\ Len(located.missing) = Cardinality(AbsentColumns(headers))

\* C9 witness: a header that holds "id" and "Weekday" but neither "ID" nor "weekday":
\* both are reported missing.
C9_Witness ==
  /\ pc = "located"
  /\ ~located.ok
  /\ {COL_ID, COL_WEEKDAY} \subseteq Range(located.missing)
  /\ {<<"i", "d">>, <<"W", "e", "e", "k", "d", "a", "y">>} \subseteq Range(headers)

\* The participants with at least one record.
NonEmptyIds == { k \in DOMAIN data : data[k] # <<>> }

LeastOf(S) == CHOOSE n \in S : \A m \in S : n <= m

\* The run of compute_weekly_summary has fixed its window.
WindowFixed == pc = "groups" \/ (pc = "done" /\ summary.some)

Finished == pc = "done" /\ summary.some

\* C3: days_to_use is min(7, least record count over the participants that have a
\* record); groups without records are left out before the minimum is taken, and each
\* remaining participant contributes exactly days_to_use records (counts 5, 7, 3 give 3).
C3_DaysToUse ==
  /\ WindowFixed =>
       /\ days_to_use = Min(7, LeastOf({ Len(data[k]) : k \in NonEmptyIds }))
       /\ \A i \in 1..Len(retained) : Len(retained[i]) = days_to_use
       /\ { Len(data[k]) : k \in DOMAIN data } = {5, 7, 3} => days_to_use = 3
  /\ Finished =>
       /\ Len(retained) = Cardinality(NonEmptyIds)
       /\ Len(per_id_totals) = Cardinality(NonEmptyIds)

\* C3 witness: a summary over two participants beside one with an empty group, and a
\* window shorter than the longer group.
C3_Witness ==
  /\ Finished
  /\ \E k \in DOMAIN data : data[k] = <<>>
  /\ Cardinality(NonEmptyIds) = 2
  /\ \E k \in NonEmptyIds : Len(data[k]) > days_to_use

SummaryFields ==
  {"average_hours", "weekly_mvpa_minutes", "daily_average_hours", "daily_mvpa_minutes",
   "daily_sedentary_hours", "average_sleep_by_weekday"}

\* C4: compute_weekly_summary returns None exactly when no participant of its argument
\* has a record, and otherwise a summary with every field, over every such participant.
C4_NoneIffNoRecords ==
  pc = "done" =>
    /\ summary = None <=> NonEmptyIds = {}
    /\ summary.some =>
         /\ DOMAIN summary.val = SummaryFields
         /\ Len(summary.val.average_hours) = 5
         /\ Len(summary.val.daily_average_hours) = 5
         /\ Len(per_id_totals) = Cardinality(NonEmptyIds)

\* C4 witness: a map with keys whose groups are all empty yields None.
C4_Witness ==
  /\ pc = "done"
  /\ summary = None
  /\ DOMAIN data # {}

RECURSIVE Flatten(_)
Flatten(groups) == IF groups = <<>> THEN <<>> ELSE Head(groups) \o Flatten(Tail(groups))

\* The fields behind the five entries of weekly_hours, in order.
HourFields ==
  <<"sleep_minutes", "total_in_min", "total_lig_min", "total_mod_min", "total_vig_min">>

RECURSIVE SumField(_, _)
SumField(days, f) ==
  IF days = <<>> THEN RZero ELSE RAdd(Head(days)[f], SumField(Tail(days), f))

\* minutes / 60 / P * 7 / d
WeeklyHoursOf(minutes, P, d) ==
  RDiv(RMul(RDiv(RDiv(minutes, RInt(60)), RInt(P)), RInt(7)), RInt(d))

\* minutes / P * 7 / d
WeeklyMinutesOf(minutes, P, d) == RDiv(RMul(RDiv(minutes, RInt(P)), RInt(7)), RInt(d))

SevenIdenticalDays == [k \in {P1} |-> Diary(P1, 0, 0, 7)]

\* C5: with P participants that have a record and a window of d days, each weekly_hours
\* entry is (that field's minutes summed over all retained days) / 60 / P * 7 / d, and
\* weekly_mvpa_minutes is (moderate + vigorous minutes summed) / P * 7 / d; seven
\* identical days of 480, 600, 120, 30, 10 give 56, 70, 14, 3.5, 7/6 hours and 280 minutes.
C5_WeeklyFigures ==
  Finished =>
    /\ \A i \in 1..5 :
         summary.val.average_hours[i]
           = WeeklyHoursOf(SumField(Flatten(retained), HourFields[i]),
                           Cardinality(NonEmptyIds), days_to_use)
    /\ summary.val.weekly_mvpa_minutes
         = WeeklyMinutesOf(RAdd(SumField(Flatten(retained), "total_mod_min"),
                                SumField(Flatten(retained), "total_vig_min")),
                           Cardinality(NonEmptyIds), days_to_use)
    /\ data = SevenIdenticalDays =>
         /\ summary.val.average_hours = <<RInt(56), RInt(70), RInt(14), Rat(7, 2), Rat(7, 6)>>
         /\ summary.val.weekly_mvpa_minutes = RInt(280)

\* C5 witness: the summary of the seven identical days.
C5_Witness ==
  /\ Finished
  /\ data = SevenIdenticalDays
  /\ summary.val.average_hours[5] = Rat(7, 6)

FieldNonNegative(f) ==
  \A i \in 1..Len(Flatten(retained)) : RLeq(RZero, Flatten(retained)[i][f])

\* C6, as claimed: every weekly_hours entry of a summary computed from extracted records
\* is >= 0.
C6_WeeklyHoursNonNegative ==
  Finished => \A i \in 1..5 : RLeq(RZero, summary.val.average_hours[i])

\* C6, amended: a weekly_hours entry is >= 0 whenever that field is >= 0 in every retained
\* day; the extractor accepts negative minutes and they pass into the sums, so an entry
\* can be negative.
C6_NonNegativeWhenInputsAre ==
  Finished =>
    \A i \in 1..5 :
      FieldNonNegative(HourFields[i]) => RLeq(RZero, summary.val.average_hours[i])

\* C6 witness: a summary of scanned rows with a negative entry beside an entry whose
\* inputs are all non-negative.
C6_Witness ==
  /\ Finished
  /\ outcome = Ok
  /\ \E i \in 1..5 : ~RLeq(RZero, summary.val.average_hours[i])
  /\ \E i \in 1..5 :
       FieldNonNegative(HourFields[i]) /\ summary.val.average_hours[i] # RZero

\* C7: each daily_hours entry is the weekly entry / 7, daily_mvpa_minutes is
\* weekly_mvpa_minutes / 7, and daily_sedentary_hours is max(0, daily inactive - daily
\* sleep): never negative, and 0 when sleep is at least the inactive time.
C7_DailyFigures ==
  Finished =>
    LET s == summary.val
    IN  /\ \A i \in 1..5 : RMul(s.daily_average_hours[i], RInt(7)) = s.average_hours[i]
        /\ RMul(s.daily_mvpa_minutes, RInt(7)) = s.weekly_mvpa_minutes
        /\ RLeq(RZero, s.daily_sedentary_hours)
        /\ IF RLeq(s.daily_average_hours[2], s.daily_average_hours[1])
           THEN s.daily_sedentary_hours = RZero
           ELSE s.daily_sedentary_hours
                  = RSub(s.daily_average_hours[2], s.daily_average_hours[1])

\* C7 witness: a summary whose daily sleep exceeds its daily inactive time.
C7_Witness ==
  /\ Finished
  /\ ~RLeq(summary.val.daily_average_hours[1], summary.val.daily_average_hours[2])
  /\ summary.val.daily_sedentary_hours = RZero

\* The days of `days` whose resolved weekday (in `resolved`, day by day) is w.
RECURSIVE PickDays(_, _, _)
PickDays(days, resolved, w) ==
  IF days = <<>> THEN <<>>
  ELSE (IF Head(resolved) = Some(w) THEN <<Head(days)>> ELSE <<>>)
         \o PickDays(Tail(days), Tail(resolved), w)

ResolvedWeekdays(days) == [i \in 1..Len(days) |-> determine_weekday(days[i])]

\* The retained days that resolve to weekday w.
DaysOn(w) == PickDays(Flatten(retained), ResolvedWeekdays(Flatten(retained)), w)

\* C8: average_sleep_by_weekday is in strictly increasing Monday..Sunday order, holds a
\* weekday exactly when a retained day resolves to it, and gives for it the mean sleep
\* hours of those days over all participants, whatever the order of participants.
C8_SleepByWeekday ==
  Finished =>
    LET list     == summary.val.average_sleep_by_weekday
        flat     == Flatten(retained)
        resolved == ResolvedWeekdays(flat)
        on       == [w \in Range(WEEKDAY_ORDER) |-> PickDays(flat, resolved, w)]
    IN  /\ \A i, j \in 1..Len(list) :
             i < j => IndexOf(WEEKDAY_ORDER, list[i][1]) < IndexOf(WEEKDAY_ORDER, list[j][1])
        /\ \A w \in Range(WEEKDAY_ORDER) :
             (\E i \in 1..Len(list) : list[i][1] = w) <=> on[w] # <<>>
        /\ \A i \in 1..Len(list) :
             list[i][2] = RDiv(RDiv(SumField(on[list[i][1]], "sleep_minutes"), RInt(60)),
                               RInt(Len(on[list[i][1]])))

\* C8 witness: three participants, a weekday observed by more than one retained day,
\* a weekday that is absent, and a retained day that resolves to no weekday.
C8_Witness ==
  /\ Finished
  /\ Len(retained) = 3
  /\ \E w \in Range(WEEKDAY_ORDER) : Len(DaysOn(w)) >= 2
  /\ Len(summary.val.average_sleep_by_weekday) \in 2..6
  /\ \E i \in 1..Len(Flatten(retained)) : ~determine_weekday(Flatten(retained)[i]).some

\* C10: compute_weekly_summary leaves its argument as the caller built it, and a second
\* call on it returns what the first call returned.
C10_InputUnchangedAndRepeatable ==
  /\ data = given
  /\ (pc = "done" /\ previous.some) => summary = previous.val

\* C10 witness: a second call has returned a summary for a map with a group that is
\* not in date order and longer than the window.
C10_Witness ==
  /\ Finished
  /\ previous.some
  /\ runs = 2
  /\ \E k \in DOMAIN data :
       Len(data[k]) > days_to_use /\ sort_metrics_by_date(data[k]) # data[k]

\* The three-way ordering, read off the calendar: with da and db the parsed dates of a
\* and b, a is strictly before b when both dates parse and a's is the earlier day, when
\* only a's parses, or when neither parses and a's text is the lesser string.
EarlierParsed(da, db, a, b) ==
  IF da.some /\ db.some
  THEN \/ da.val.y < db.val.y
       \/ da.val.y = db.val.y /\ da.val.m < db.val.m
       \/ da.val.y = db.val.y /\ da.val.m = db.val.m /\ da.val.d < db.val.d
  ELSE IF da.some THEN TRUE
  ELSE IF db.some THEN FALSE
  ELSE StrCmp(a.calendar_date, b.calendar_date) = "Less"

Earlier(a, b) ==
  EarlierParsed(parse_calendar_date(a.calendar_date), parse_calendar_date(b.calendar_date),
                a, b)

\* The parsed dates of a group's records, record by record.
RECURSIVE ParsedDates(_)
ParsedDates(g) ==
  IF g = <<>> THEN <<>>
  ELSE <<parse_calendar_date(Head(g).calendar_date)>> \o ParsedDates(Tail(g))

\* C11: for each participant the retained days are the first days_to_use records of the
\* group in ascending three-way order (dates by day, unparseable dates after every date,
\* two unparseable dates by their text), equal records in insertion order: no dropped
\* record is before a retained one, so the earliest days are kept, not the latest.
\* pos[k] is where record k of the group stands in that order: after every record before
\* it and every equal record inserted earlier.
C11_EarliestDaysRetained ==
  WindowFixed =>
    \A i \in 1..Len(retained) :
      \A g \in {data[retained[i][1].id]} :
        \A dates \in {ParsedDates(g)} :
          LET days   == retained[i]
              before == [k \in 1..Len(g), l \in 1..Len(g) |->
                           EarlierParsed(dates[k], dates[l], g[k], g[l])]
              pos    == [k \in 1..Len(g) |->
                           1 + Cardinality({ j \in 1..Len(g) :
                                               before[j, k] \/ (j < k /\ ~before[k, j]) })]
          IN  /\ Len(days) = days_to_use
              /\ { pos[k] : k \in 1..Len(g) } = 1..Len(g)
              /\ \A k \in 1..Len(g) : pos[k] <= days_to_use => days[pos[k]] = g[k]
              /\ \A k, l \in 1..Len(g) :
                   (pos[k] <= days_to_use /\ pos[k] < pos[l]) =>
                     /\ ~before[l, k]
                     /\ ~before[k, l] => k < l

\* C11 witness: a processed group longer than the window and not in order as given, whose
\* dropped record has an unparseable date and whose retained days are two different
\* records of one date, kept in insertion order against the order of their texts.
C11_Witness ==
  /\ Finished
  /\ \E i \in 1..Len(retained) :
       LET days == retained[i]
           g    == data[days[1].id]
       IN  /\ Len(g) > days_to_use
           /\ days # SubSeq(g, 1, days_to_use)
           /\ \E k \in 1..Len(g) :
                /\ ~parse_calendar_date(g[k].calendar_date).some
                /\ \A n \in 1..Len(days) : days[n] # g[k]
           /\ \E m, n \in 1..Len(days) :
                /\ m < n
                /\ days[m] # days[n]
                /\ ~Earlier(days[m], days[n])
                /\ StrCmp(days[m].calendar_date, days[n].calendar_date) = "Greater"

\* The weekday of a calendar day of the common era, by the month-offset rule
\* (0 is Sunday).
MonthOffsets == <<0, 3, 2, 5, 0, 3, 5, 1, 4, 6, 2, 4>>

CalendarWeekday(date) ==
  LET y == IF date.m < 3 THEN date.y - 1 ELSE date.y
      n == (y + y \div 4 - y \div 100 + y \div 400 + MonthOffsets[date.m] + date.d) % 7
  IN  <<"Sun", "Mon", "Tue", "Wed", "Thu", "Fri", "Sat">>[n + 1]

\* The one day of a weekday run has been through the loop.
DayResolved == (pc = "groups" /\ retained # <<>>) \/ pc = "done"

\* C12: determine_weekday yields the weekday of the parsed date whenever the date parses,
\* whatever the label says (2024-03-04 labelled Friday is a Monday); only when the date
\* does not parse it yields parse_weekday_name of the label, and nothing when the label is
\* no weekday name either.  The loop files the day's sleep under what it yields.
C12_DateBeforeLabel ==
  DayResolved =>
    \A day \in {retained[1][1]} :
      LET date  == parse_calendar_date(day.calendar_date)
          name  == parse_weekday_name(day.weekday)
          found == DOMAIN weekday_sleep_totals
      IN  /\ date.some => found = {CalendarWeekday(date.val)}
          /\ (~date.some /\ name.some) => found = {name.val}
          /\ (~date.some /\ ~name.some) => found = {}
          /\ (day.calendar_date = <<"2", "0", "2", "4", "-", "0", "3", "-", "0", "4">> /\ day.weekday = <<"F", "r", "i", "d", "a", "y">>) => found = {"Mon"}
          /\ (day.calendar_date = <<"2", "0", "2", "3", "-", "0", "2", "-", "2", "9">> /\ day.weekday = <<" ", "T", "U", "E", "S", " ">>) => found = {"Tue"}
          /\ (day.calendar_date = <<"n", "/", "a">> /\ day.weekday = <<"F", "r", "i", "y", "a", "y">>) => found = {}

\* C12 witness: the day dated 2024-03-04 and labelled Friday has been filed under Monday.
C12_Witness ==
  /\ pc = "done"
  /\ retained[1][1].calendar_date = <<"2", "0", "2", "4", "-", "0", "3", "-", "0", "4">>
  /\ retained[1][1].weekday = <<"F", "r", "i", "d", "a", "y">>
  /\ DOMAIN weekday_sleep_totals = {"Mon"}

=============================================================================
